---------------------------- MODULE Spec2Model ----------------------------
(***************************************************************************)
(* Model of src/main.go: a turn-based agent that steers "pac" units over   *)
(* a grid maze.  The module models the grid and its cells, the A* search   *)
(* with its binary heap, the pellet and unit registries, the input loop of *)
(* main and the planning pass PlayTurn.                                    *)
(*                                                                         *)
(* Pointers are modelled by what they point to: a *Cell is the coordinate  *)
(* <<x, y>> of the cell in the grid it belongs to, a *Pellet is the        *)
(* 1-based position of the pellet in Game.Pellet (0 is nil), a *Pac is     *)
(* the 1-based position of the unit in its collection.  Go slices are      *)
(* sequences; a Go index i is position i + 1.                              *)
(***************************************************************************)
EXTENDS Integers, Sequences, FiniteSets, TLC

VARIABLES
    Grid,          \* Game.Grid: rows of cells, Grid[y + 1][x + 1]
    MyPacs,        \* Game.MyPacs
    OpponentPacs,  \* Game.OpponentPacs
    Pellet,        \* Game.Pellet
    pc,            \* position of the single thread of control
    idx,           \* loop position inside PlayTurn (1-based)
    moves,         \* the local string `moves` of PlayTurn, as a sequence of commands
    printed,       \* number of lines PlayTurn has written to stdout
    turn,          \* number of iterations of main's loop started
    reported,      \* units already reported in the turn being read
    checked,       \* this turn's "Checking target" log lines (line 332), one per unit
    planStart,     \* history: the units and pellets when the planning loop starts
    visible,       \* pellets reported in the turn being read: <<x, y, value>>
    query,         \* arguments of the path search under test
    path           \* result of the path search under test

vars == <<Grid, MyPacs, OpponentPacs, Pellet, pc, idx, moves, printed, turn,
          reported, checked, planStart, visible, query, path>>

(***************************************************************************)
(* Bounds of the model.                                                    *)
(***************************************************************************)
MaxTurns == 2
MaxPellets == 2
MaxMyPacs == 2
MaxOpponentPacs == 1
MazeW == 3
MazeH == 2

\* planStart before the planning loop has started
NoSnapshot == [MyPacs |-> <<>>, Pellet |-> <<>>]

\* nil pointer to a cell
Nil == <<>>

\* Go's integer division truncates toward zero.
GoDiv(a, b) == IF a >= 0 THEN a \div b ELSE -((-a) \div b)

abs(x) == IF x < 0 THEN -x ELSE x

(***************************************************************************)
(* Cells and grids.                                                        *)
(***************************************************************************)
\* A freshly allocated &Cell{x, y, isWall}: every other field has Go's zero value.
Cell(x, y, isWall) ==
    [x |-> x, y |-> y, isWall |-> isWall, g |-> 0, h |-> 0, f |-> 0,
     parent |-> Nil, index |-> 0, Neighbors |-> <<>>]

GetCell(x, y, grid) == grid[y + 1][x + 1]

CellAt(grid, p) == GetCell(p[1], p[2], grid)

SetCell(grid, p, c) == [grid EXCEPT ![p[2] + 1][p[1] + 1] = c]

getNeighbors(cell, grid) ==
    LET x == cell.x
        y == cell.y
    IN  (IF x > 0 THEN << <<x - 1, y>> >> ELSE <<>>)
        \o (IF x < Len(grid[1]) - 1 THEN << <<x + 1, y>> >> ELSE <<>>)
        \o (IF y > 0 THEN << <<x, y - 1>> >> ELSE <<>>)
        \o (IF y < Len(grid) - 1 THEN << <<x, y + 1>> >> ELSE <<>>)

InitNeighbors(c, grid) == [c EXCEPT !.Neighbors = getNeighbors(c, grid)]

\* main's construction of game.Grid from the rows of the maze; a row is a
\* sequence of characters, "#" a wall.
BuildGrid(rows) ==
    LET raw == [i \in 1..Len(rows) |->
                   [j \in 1..Len(rows[i]) |-> Cell(j - 1, i - 1, rows[i][j] = "#")]]
    IN  [i \in 1..Len(raw) |->
            [j \in 1..Len(raw[i]) |-> InitNeighbors(raw[i][j], raw)]]

cloneGrid(grid) ==
    [y \in 1..Len(grid) |->
        [x \in 1..Len(grid[y]) |->
            Cell(grid[y][x].x, grid[y][x].y, grid[y][x].isWall)]]

manhattanDistance(a, b) == abs(a.x - b.x) + abs(a.y - b.y)

(***************************************************************************)
(* The priority queue.  A search state s holds the cloned grid s.cells     *)
(* (the cells carry g, h, f, parent and index) and the heap array s.pq of  *)
(* cell pointers.  i, j are Go indices.                                    *)
(***************************************************************************)
PQLess(s, i, j) == CellAt(s.cells, s.pq[i + 1]).f < CellAt(s.cells, s.pq[j + 1]).f

PQSwap(s, i, j) ==
    LET a == s.pq[i + 1]
        b == s.pq[j + 1]
        c1 == SetCell(s.cells, b, [CellAt(s.cells, b) EXCEPT !.index = i])
        c2 == SetCell(c1, a, [CellAt(c1, a) EXCEPT !.index = j])
    IN  [s EXCEPT !.pq = [s.pq EXCEPT ![i + 1] = b, ![j + 1] = a], !.cells = c2]

PQPush(s, p) ==
    [s EXCEPT !.cells = SetCell(s.cells, p, [CellAt(s.cells, p) EXCEPT !.index = Len(s.pq)]),
              !.pq = Append(s.pq, p)]

\* the popped item is the last element; its index becomes -1
PQPop(s) ==
    LET n == Len(s.pq)
        item == s.pq[n]
    IN  [s EXCEPT !.cells = SetCell(s.cells, item, [CellAt(s.cells, item) EXCEPT !.index = -1]),
                  !.pq = SubSeq(s.pq, 1, n - 1)]

\* container/heap up(h, j)
RECURSIVE heapUp(_, _)
heapUp(s, j) ==
    LET i == GoDiv(j - 1, 2)
    IN  IF i = j \/ ~PQLess(s, j, i) THEN s ELSE heapUp(PQSwap(s, i, j), i)

\* the loop of container/heap down(h, i0, n); yields the state and the final i
RECURSIVE heapDownLoop(_, _, _)
heapDownLoop(s, i, n) ==
    LET j1 == 2 * i + 1
    IN  IF j1 >= n \/ j1 < 0
        THEN [s |-> s, i |-> i]
        ELSE LET j == IF j1 + 1 < n /\ PQLess(s, j1 + 1, j1) THEN j1 + 1 ELSE j1
             IN  IF ~PQLess(s, j, i)
                 THEN [s |-> s, i |-> i]
                 ELSE heapDownLoop(PQSwap(s, i, j), j, n)

heapDown(s, i0, n) ==
    LET r == heapDownLoop(s, i0, n)
    IN  [s |-> r.s, moved |-> r.i > i0]

heapPush(s, p) ==
    LET s1 == PQPush(s, p)
    IN  heapUp(s1, Len(s1.pq) - 1)

\* heap.Pop: yields the state after the pop and the popped cell pointer
heapPop(s) ==
    LET n == Len(s.pq) - 1
        s1 == heapDown(PQSwap(s, 0, n), 0, n).s
    IN  [s |-> PQPop(s1), item |-> s1.pq[Len(s1.pq)]]

heapFix(s, i) ==
    LET d == heapDown(s, i, Len(s.pq))
    IN  IF d.moved THEN d.s ELSE heapUp(d.s, i)

update(s, item, g, h) ==
    LET c == [CellAt(s.cells, item) EXCEPT !.g = g, !.h = h, !.f = g + h]
        s1 == [s EXCEPT !.cells = SetCell(s.cells, item, c)]
    IN  heapFix(s1, c.index)

contains(pq, cell) == \E k \in 1..Len(pq) : pq[k] = cell

(***************************************************************************)
(* A* search.                                                              *)
(***************************************************************************)
\* the loop over current.Neighbors, from its k-th element on
RECURSIVE RelaxNeighbors(_, _, _, _)
RelaxNeighbors(s, current, goal, k) ==
    LET cur == CellAt(s.cells, current)
    IN  IF k > Len(cur.Neighbors)
        THEN s
        ELSE LET neighbor == cur.Neighbors[k]
                 nb == CellAt(s.cells, neighbor)
                 tentativeGScore == cur.g + 1
             IN  IF nb.isWall \/ neighbor \in s.closedSet
                 THEN RelaxNeighbors(s, current, goal, k + 1)
                 ELSE IF contains(s.pq, neighbor) /\ tentativeGScore >= nb.g
                 THEN RelaxNeighbors(s, current, goal, k + 1)
                 ELSE LET s1 == IF ~contains(s.pq, neighbor)
                                THEN heapPush(s, neighbor)
                                ELSE s
                          s2 == [s1 EXCEPT !.cells =
                                    SetCell(s1.cells, neighbor,
                                        [CellAt(s1.cells, neighbor) EXCEPT !.parent = current])]
                          s3 == update(s2, neighbor, tentativeGScore,
                                       manhattanDistance(CellAt(s2.cells, neighbor),
                                                         CellAt(s2.cells, goal)))
                      IN  RelaxNeighbors(s3, current, goal, k + 1)

\* the walk along the parent pointers that builds the path, front first
RECURSIVE BuildPath(_, _, _)
BuildPath(cells, current, acc) ==
    IF current = Nil
    THEN acc
    ELSE BuildPath(cells, CellAt(cells, current).parent, <<current>> \o acc)

\* the main loop falling through to the path reconstruction, from goal, when
\* the open set runs empty
RECURSIVE AStarLoop_FallsThrough(_, _)
AStarLoop_FallsThrough(s, goal) ==
    IF Len(s.pq) = 0
    THEN BuildPath(s.cells, goal, <<>>)
    ELSE LET p == heapPop(s)
             current == p.item
         IN  IF current = goal
             THEN BuildPath(p.s.cells, current, <<>>)
             ELSE AStarLoop_FallsThrough(RelaxNeighbors(
                                [p.s EXCEPT !.closedSet = @ \cup {current}],
                                current, goal, 1),
                            goal)

\* the main loop of AStar; yields the path, nil (the empty sequence) when
\* the open set runs empty
RECURSIVE AStarLoop(_, _)
AStarLoop(s, goal) ==
    IF Len(s.pq) = 0
    THEN <<>>
    ELSE LET p == heapPop(s)
             current == p.item
         IN  IF current = goal
             THEN BuildPath(p.s.cells, current, <<>>)
             ELSE AStarLoop(RelaxNeighbors(
                                [p.s EXCEPT !.closedSet = @ \cup {current}],
                                current, goal, 1),
                            goal)

AStar(startX, startY, endX, endY, grid) ==
    LET clone == cloneGrid(grid)
        start == <<startX, startY>>
        goal == <<endX, endY>>
        s0 == heapPush([cells |-> clone, pq |-> <<>>, closedSet |-> {}], start)
    IN  AStarLoop(s0, goal)


\* the cells of the clone when the main loop of AStar ends: what the search
\* has written into g, h, f, parent and index
RECURSIVE AStarCells(_, _)
AStarCells(s, goal) ==
    IF Len(s.pq) = 0
    THEN s.cells
    ELSE LET p == heapPop(s)
             current == p.item
         IN  IF current = goal
             THEN p.s.cells
             ELSE AStarCells(RelaxNeighbors(
                                 [p.s EXCEPT !.closedSet = @ \cup {current}],
                                 current, goal, 1),
                             goal)

\* a clone whose rows hold the passed grid's own cell pointers
cloneAliases_Shallow(grid) ==
    {<<x, y>> : x \in 0..(Len(grid[1]) - 1), y \in 0..(Len(grid) - 1)}

\* the coordinates at which the clone holds the very cell object of the
\* passed grid: none, line 144 allocates every cell of the clone anew
cloneAliases(grid) == {}

\* the grid passed to AStar as the call leaves it: the search writes to the
\* cells it reaches from the clone, so a cell of the passed grid changes only
\* where the clone holds that same object
AStarGrid(startX, startY, endX, endY, grid) ==
    LET written == AStarCells(heapPush([cells |-> cloneGrid(grid), pq |-> <<>>,
                                        closedSet |-> {}], <<startX, startY>>),
                              <<endX, endY>>)
    IN  [y \in 1..Len(grid) |->
            [x \in 1..Len(grid[y]) |->
                IF <<x - 1, y - 1>> \in cloneAliases(grid)
                THEN [grid[y][x] EXCEPT !.g = written[y][x].g, !.h = written[y][x].h,
                                        !.f = written[y][x].f,
                                        !.parent = written[y][x].parent,
                                        !.index = written[y][x].index]
                ELSE grid[y][x]]]

(***************************************************************************)
(* Units and pellets.                                                      *)
(***************************************************************************)
\* the &Pac{...} literal of AddPac: the target is the reported position
NewPac(id, mine, x, y, typeId, speedTurnsLeft, abilityCooldown) ==
    [Id |-> id, Mine |-> (mine = 1), X |-> x, Y |-> y, TypeId |-> typeId,
     SpeedTurnsLeft |-> speedTurnsLeft, AbilityCooldown |-> abilityCooldown,
     TargetX |-> x, TargetY |-> y, TargetPelletId |-> 0, TargetPelletDist |-> 0]

\* the &Pellet{...} literal of AddPellet
NewPellet(x, y, value) ==
    [X |-> x, Y |-> y, Value |-> value, Consumed |-> FALSE, Targeted |-> FALSE]

\* a range loop that returns at its first match: the least of the matching
\* positions, 0 (nil) when there is none
FirstIndex(matches) ==
    IF matches = {} THEN 0 ELSE CHOOSE k \in matches : \A j \in matches : k <= j

\* AddPac whose update of a known unit also moves its target to the new position
AddPacTo_ResetsTarget(pacs, id, mine, x, y, typeId, speedTurnsLeft, abilityCooldown) ==
    IF FirstIndex({j \in 1..Len(pacs) : pacs[j].Id = id}) # 0
    THEN [pacs EXCEPT ![FirstIndex({j \in 1..Len(pacs) : pacs[j].Id = id})] =
             [@ EXCEPT !.X = x, !.Y = y, !.TypeId = typeId,
                       !.SpeedTurnsLeft = speedTurnsLeft,
                       !.AbilityCooldown = abilityCooldown,
                       !.TargetX = x, !.TargetY = y]]
    ELSE Append(pacs, NewPac(id, mine, x, y, typeId, speedTurnsLeft, abilityCooldown))

\* AddPac on the collection of the reported side
AddPacTo(pacs, id, mine, x, y, typeId, speedTurnsLeft, abilityCooldown) ==
    LET k == FirstIndex({j \in 1..Len(pacs) : pacs[j].Id = id})
    IN  IF k # 0
        THEN [pacs EXCEPT ![k] = [@ EXCEPT !.X = x, !.Y = y, !.TypeId = typeId,
                                           !.SpeedTurnsLeft = speedTurnsLeft,
                                           !.AbilityCooldown = abilityCooldown]]
        ELSE Append(pacs, NewPac(id, mine, x, y, typeId, speedTurnsLeft, abilityCooldown))

\* AddPac: yields both collections
AddPac(my, opp, id, mine, x, y, typeId, speedTurnsLeft, abilityCooldown) ==
    IF mine = 1
    THEN [MyPacs |-> AddPacTo(my, id, mine, x, y, typeId, speedTurnsLeft, abilityCooldown),
          OpponentPacs |-> opp]
    ELSE [MyPacs |-> my,
          OpponentPacs |-> AddPacTo(opp, id, mine, x, y, typeId, speedTurnsLeft, abilityCooldown)]

\* GetPallet: pointer to the first pellet at (x, y), nil (0) when there is none
GetPallet(pellets, x, y) ==
    FirstIndex({k \in 1..Len(pellets) : pellets[k].X = x /\ pellets[k].Y = y})

\* AddPellet without the lookup of lines 265-273: every entry read is appended
AddPellet_AlwaysAppends(pellets, id, x, y, value) ==
    Append(pellets, NewPellet(x, y, value))

\* AddPellet whose update of a known pellet leaves the consumed flag alone
AddPellet_KeepsFlag(pellets, id, x, y, value) ==
    IF GetPallet(pellets, x, y) # 0
    THEN [pellets EXCEPT ![GetPallet(pellets, x, y)] = [@ EXCEPT !.X = x, !.Y = y, !.Value = value]]
    ELSE Append(pellets, NewPellet(x, y, value))

AddPellet(pellets, id, x, y, value) ==
    LET k == GetPallet(pellets, x, y)
    IN  IF k # 0
        THEN [pellets EXCEPT ![k] = [@ EXCEPT !.X = x, !.Y = y, !.Value = value,
                                              !.Consumed = FALSE]]
        ELSE Append(pellets, NewPellet(x, y, value))

\* the start of a turn without the loop of lines 452-454
MarkAllConsumed_Skipped(pellets) == pellets

\* main, lines 452-454: every known pellet is flagged consumed
MarkAllConsumed(pellets) ==
    [k \in 1..Len(pellets) |-> [pellets[k] EXCEPT !.Consumed = TRUE]]

\* the scan shared by GetClosestSuperPallet and GetClosestRegularPallet, from
\* the k-th pellet on; closest is a pellet pointer
\* the comparison in the loop body: the pointer and distance kept after a
\* candidate k whose path has n cells
Closer(k, n, closest, closestDist) ==
    IF closest = 0 \/ n < closestDist
    THEN [closest |-> k, closestDist |-> n]
    ELSE [closest |-> closest, closestDist |-> closestDist]

RECURSIVE ClosestScan(_, _, _, _, _, _)
ClosestScan(pellets, pac, grid, value, k, best) ==
    IF k > Len(pellets)
    THEN best.closest
    ELSE ClosestScan(pellets, pac, grid, value, k + 1,
             IF pellets[k].Value = value /\ ~pellets[k].Consumed /\ ~pellets[k].Targeted
             THEN Closer(k, Len(AStar(pac.X, pac.Y, pellets[k].X, pellets[k].Y, grid)),
                         best.closest, best.closestDist)
             ELSE best)

GetClosestSuperPallet(pellets, pac, grid) == ClosestScan(pellets, pac, grid, 10, 1, [closest |-> 0, closestDist |-> 0])

GetClosestRegularPallet(pellets, pac, grid) == ClosestScan(pellets, pac, grid, 1, 1, [closest |-> 0, closestDist |-> 0])

\* CheckTargetEaten without its reset for a pellet that is flagged consumed
CheckTargetEaten_KeepsConsumed(pellets, pac) ==
    IF GetPallet(pellets, pac.TargetX, pac.TargetY) # 0
    THEN pac
    ELSE [pac EXCEPT !.TargetX = pac.X, !.TargetY = pac.Y, !.TargetPelletDist = -1]

\* CheckTargetEaten: yields the unit
CheckTargetEaten(pellets, pac) ==
    LET pallet == GetPallet(pellets, pac.TargetX, pac.TargetY)
    IN  IF pallet # 0 /\ ~pellets[pallet].Consumed
        THEN pac
        ELSE [pac EXCEPT !.TargetX = pac.X, !.TargetY = pac.Y, !.TargetPelletDist = -1]

\* CheckTargetEaten, line 332: the log line, with the pellet GetPallet found
\* (no element for nil)
CheckingTarget(pellets, pac) ==
    LET pallet == GetPallet(pellets, pac.TargetX, pac.TargetY)
    IN  [TargetX |-> pac.TargetX, TargetY |-> pac.TargetY,
         pallet |-> IF pallet = 0 THEN <<>> ELSE <<pellets[pallet]>>]

\* RemovePallet that consumes a pellet only when it is the unit's stored target
RemovePallet_TargetOnly(pellets, pac) ==
    IF GetPallet(pellets, pac.X, pac.Y) # 0 /\ pac.X = pac.TargetX /\ pac.Y = pac.TargetY
    THEN [pellets EXCEPT ![GetPallet(pellets, pac.X, pac.Y)].Consumed = TRUE]
    ELSE pellets

\* RemovePallet: yields the pellet collection
RemovePallet(pellets, pac) ==
    LET pallet == GetPallet(pellets, pac.X, pac.Y)
    IN  IF pallet # 0
        THEN [pellets EXCEPT ![pallet].Consumed = TRUE]
        ELSE pellets

\* PlayTurn, lines 366-368
RECURSIVE RemoveAll(_, _, _)
RemoveAll(pellets, pacs, k) ==
    IF k > Len(pacs) THEN pellets ELSE RemoveAll(RemovePallet(pellets, pacs[k]), pacs, k + 1)

\* a move command "MOVE id x y|"
Move(id, x, y) == <<id, x, y>>

\* PlayTurn, lines 374-381: the unit stands on its target
ClearReached(pellets, pac) ==
    LET old == GetPallet(pellets, pac.TargetX, pac.TargetY)
    IN  IF old # 0
        THEN [pellets |-> [pellets EXCEPT ![old].Value = 0],
              pac |-> [pac EXCEPT !.TargetX = -1, !.TargetY = -1, !.TargetPelletDist = -1]]
        ELSE [pellets |-> pellets, pac |-> pac]

\* a commit without lines 389 and 397: the pellet is not flagged targeted
Commit_Unflagged(pellets, pac, pallet, grid, mv) ==
    [pellets |-> pellets,
     pac |-> [pac EXCEPT !.TargetX = pellets[pallet].X, !.TargetY = pellets[pallet].Y,
                         !.TargetPelletDist =
                             Len(AStar(pac.X, pac.Y, pellets[pallet].X, pellets[pallet].Y, grid))],
     moves |-> Append(mv, Move(pac.Id, pellets[pallet].X, pellets[pallet].Y)),
     panic |-> FALSE]

\* PlayTurn, lines 385-389 and 393-397: commit the unit to a pellet
Commit(pellets, pac, pallet, grid, mv) ==
    [pellets |-> [pellets EXCEPT ![pallet].Targeted = TRUE],
     pac |-> [pac EXCEPT !.TargetX = pellets[pallet].X, !.TargetY = pellets[pallet].Y,
                         !.TargetPelletDist =
                             Len(AStar(pac.X, pac.Y, pellets[pallet].X, pellets[pallet].Y, grid))],
     moves |-> Append(mv, Move(pac.Id, pellets[pallet].X, pellets[pallet].Y)),
     panic |-> FALSE]

\* PlayTurn, lines 398-403: no pellet was found.  Line 399 reads pallet.X
\* through the nil pointer: the Go runtime panics there and the process
\* ends before any of the three assignments.
HoldPosition(pellets, pac, mv) ==
    [pellets |-> pellets, pac |-> pac, moves |-> mv, panic |-> TRUE]

\* the choice with the two tiers swapped: a regular pellet wins
ChooseTarget_RegularFirst(pellets, pac, grid, mv, super, regular) ==
    IF regular # 0
    THEN Commit(pellets, pac, regular, grid, mv)
    ELSE IF super # 0
    THEN Commit(pellets, pac, super, grid, mv)
    ELSE HoldPosition(pellets, pac, mv)

\* PlayTurn, lines 383-404: the choice between the two searches' results.
\* An argument is evaluated when it is first used, so the regular search
\* runs only after the super search has returned nil, as in the code.
ChooseTarget(pellets, pac, grid, mv, super, regular) ==
    IF super # 0
    THEN Commit(pellets, pac, super, grid, mv)
    ELSE IF regular # 0
    THEN Commit(pellets, pac, regular, grid, mv)
    ELSE HoldPosition(pellets, pac, mv)

\* PlayTurn, lines 373-404: the unit stands on its target; r is the state
\* after lines 374-381
PlanIdle(r, grid, mv) ==
    ChooseTarget(r.pellets, r.pac, grid, mv,
                 GetClosestSuperPallet(r.pellets, r.pac, grid),
                 GetClosestRegularPallet(r.pellets, r.pac, grid))

\* PlayTurn, lines 371-407: one iteration of the planning loop
PlanPac(pellets, pac, grid, mv) ==
    IF pac.X = pac.TargetX /\ pac.Y = pac.TargetY
    THEN PlanIdle(ClearReached(pellets, pac), grid, mv)
    ELSE [pellets |-> pellets, pac |-> pac,
          moves |-> Append(mv, Move(pac.Id, pac.TargetX, pac.TargetY)),
          panic |-> FALSE]

(***************************************************************************)
(* The inputs: mazes, cells and unit attributes the environment reports.   *)
(***************************************************************************)
\* the mazes of the game runs: a bend of three open cells, and a corridor
\* whose two open cells a wall separates
GameMazes ==
    { << <<" ", " ">>, <<" ", "#">> >>,
      << <<" ", "#", " ">> >> }

\* every maze of MazeW columns and MazeH rows, for the runs of the path search
AllMazes == [1..MazeH -> [1..MazeW -> {" ", "#"}]]

Coords(grid) == {<<x, y>> : x \in 0..(Len(grid[1]) - 1), y \in 0..(Len(grid) - 1)}

OpenCells(grid) == {p \in Coords(grid) : ~CellAt(grid, p).isWall}

\* orthogonally adjacent coordinates
Adjacent(p, q) == abs(p[1] - q[1]) + abs(p[2] - q[2]) = 1

MyIds == 0..(MaxMyPacs - 1)
OpponentIds == 0..(MaxOpponentPacs - 1)
TypeIds == {"NEUTRAL"}
SpeedTurns == {0}
Cooldowns == {0}
PelletValues == {1, 10}

\* coordinate of a unit or a pellet
At(r) == <<r.X, r.Y>>

\* the collection AddPac works on
PacsOf(mine) == IF mine = 1 THEN MyPacs ELSE OpponentPacs

\* where the engine may report a unit: a new unit on any open cell, a known
\* one where it stood or one step from there
Positions(mine, id) ==
    LET k == FirstIndex({j \in 1..Len(PacsOf(mine)) : PacsOf(mine)[j].Id = id})
    IN  IF k = 0
        THEN OpenCells(Grid)
        ELSE {q \in OpenCells(Grid) :
                 LET at == <<PacsOf(mine)[k].X, PacsOf(mine)[k].Y>>
                 IN  q = at \/ Adjacent(q, at)}

\* the unit a report <<mine, id>> of this turn has updated or created
ReportedPac(r) ==
    PacsOf(r[1])[FirstIndex({j \in 1..Len(PacsOf(r[1])) : PacsOf(r[1])[j].Id = r[2]})]

\* the engine never reports two units on one cell in the same turn
NoSharedCell ==
    \A r1, r2 \in reported : r1 # r2 => At(ReportedPac(r1)) # At(ReportedPac(r2))

(***************************************************************************)
(* The state machine: main's loop and the steps of PlayTurn.               *)
(***************************************************************************)
Init ==
    /\ Grid \in {BuildGrid(m) : m \in GameMazes}
    /\ MyPacs = <<>>
    /\ OpponentPacs = <<>>
    /\ Pellet = <<>>
    /\ pc = "read"
    /\ idx = 0
    /\ moves = <<>>
    /\ printed = 0
    /\ turn = 0
    /\ reported = {}
    /\ checked = <<>>
    /\ planStart = NoSnapshot
    /\ visible = {}
    /\ query = <<>>
    /\ path = <<>>

\* main, lines 446-454: the scores are read and every pellet is flagged consumed
BeginTurn ==
    /\ pc = "read"
    /\ turn < MaxTurns
    /\ Pellet' = MarkAllConsumed(Pellet)
    /\ turn' = turn + 1
    /\ moves' = <<>>
    /\ checked' = <<>>
    /\ planStart' = NoSnapshot
    /\ pc' = "pacs"
    /\ visible' = {}
    /\ UNCHANGED <<Grid, MyPacs, OpponentPacs, idx, printed, reported, query, path>>

\* main, lines 461-479: one visible unit is read and handed to AddPac
ReportPac ==
    /\ pc = "pacs"
    /\ \E mine \in {0, 1} :
       \E id \in (IF mine = 1 THEN MyIds ELSE OpponentIds) :
       \E pos \in Positions(mine, id) :
       \E typeId \in TypeIds, speedTurnsLeft \in SpeedTurns, abilityCooldown \in Cooldowns :
          /\ <<mine, id>> \notin reported
          /\ LET r == AddPac(MyPacs, OpponentPacs, id, mine, pos[1], pos[2],
                             typeId, speedTurnsLeft, abilityCooldown)
             IN  /\ MyPacs' = r.MyPacs
                 /\ OpponentPacs' = r.OpponentPacs
          /\ reported' = reported \cup {<<mine, id>>}
    /\ UNCHANGED <<Grid, Pellet, pc, idx, moves, printed, turn, checked, planStart,
                   query, path, visible>>

\* main, lines 485-494: one visible pellet is read and handed to AddPellet;
\* a coordinate is reported once a turn
ReportPellet ==
    /\ pc \in {"pacs", "pellets"}
    /\ NoSharedCell
    /\ \E pos \in OpenCells(Grid), value \in PelletValues :
          LET k == GetPallet(Pellet, pos[1], pos[2])
          IN  /\ IF k = 0 THEN Len(Pellet) < MaxPellets ELSE Pellet[k].Consumed
              /\ Pellet' = AddPellet(Pellet, Len(Pellet), pos[1], pos[2], value)
              /\ visible' = visible \cup {<<pos[1], pos[2], value>>}
    /\ pc' = "pellets"
    /\ reported' = {}
    /\ UNCHANGED <<Grid, MyPacs, OpponentPacs, idx, moves, printed, turn, checked,
                   planStart, query, path>>

\* PlayTurn, lines 359-360: the call
EnterPlayTurn ==
    /\ pc \in {"pacs", "pellets"}
    /\ NoSharedCell
    /\ pc' = "reconcile"
    /\ idx' = 1
    /\ reported' = {}
    /\ UNCHANGED <<Grid, MyPacs, OpponentPacs, Pellet, moves, printed, turn, checked,
                   planStart, query, path, visible>>

\* PlayTurn, lines 361-365: one iteration of the first loop
ReconcilePac ==
    /\ pc = "reconcile"
    /\ idx <= Len(MyPacs)
    /\ Pellet' = RemovePallet(Pellet, MyPacs[idx])
    /\ MyPacs' = [MyPacs EXCEPT ![idx] = CheckTargetEaten(Pellet', MyPacs[idx])]
    /\ checked' = Append(checked, CheckingTarget(Pellet', MyPacs[idx]))
    /\ idx' = idx + 1
    /\ UNCHANGED <<Grid, OpponentPacs, pc, moves, printed, turn, reported, planStart,
                   query, path, visible>>

\* PlayTurn, lines 366-369: the loop over the opposing units
RemoveOpponents ==
    /\ pc = "reconcile"
    /\ idx > Len(MyPacs)
    /\ Pellet' = RemoveAll(Pellet, OpponentPacs, 1)
    /\ planStart' = [MyPacs |-> MyPacs, Pellet |-> Pellet']
    /\ pc' = "plan"
    /\ idx' = 1
    /\ UNCHANGED <<Grid, MyPacs, OpponentPacs, moves, printed, turn, reported, checked,
                   query, path, visible>>

\* PlayTurn, lines 370-408: one iteration of the planning loop; its searches
\* work on clones and leave Grid as it is (AStarGrid)
PlanStep ==
    /\ pc = "plan"
    /\ idx <= Len(MyPacs)
    /\ \E r \in {PlanPac(Pellet, MyPacs[idx], Grid, moves)} :
           /\ Pellet' = r.pellets
           /\ MyPacs' = [MyPacs EXCEPT ![idx] = r.pac]
           /\ moves' = r.moves
           /\ pc' = IF r.panic THEN "panic" ELSE "plan"
           /\ idx' = IF r.panic THEN idx ELSE idx + 1
    /\ UNCHANGED <<Grid, OpponentPacs, printed, turn, reported, checked, planStart,
                   query, path, visible>>

\* PlayTurn, lines 409-411: the line of commands is printed and main loops
PrintMoves ==
    /\ pc = "plan"
    /\ idx > Len(MyPacs)
    /\ printed' = printed + 1
    /\ pc' = "read"
    /\ idx' = 0
    /\ UNCHANGED <<Grid, MyPacs, OpponentPacs, Pellet, moves, turn, reported, checked,
                   planStart, query, path, visible>>

Next ==
    \/ BeginTurn
    \/ ReportPac
    \/ ReportPellet
    \/ EnterPlayTurn
    \/ ReconcilePac
    \/ RemoveOpponents
    \/ PlanStep
    \/ PrintMoves

Spec == Init /\ [][Next]_vars

(***************************************************************************)
(* The path search on its own: every maze of MazeW x MazeH cells and every *)
(* pair of open cells, then one call of AStar.                             *)
(***************************************************************************)
InitSearch ==
    /\ Grid \in {BuildGrid(m) : m \in AllMazes}
    /\ MyPacs = <<>>
    /\ OpponentPacs = <<>>
    /\ Pellet = <<>>
    /\ pc = "search"
    /\ idx = 0
    /\ moves = <<>>
    /\ printed = 0
    /\ turn = 0
    /\ reported = {}
    /\ checked = <<>>
    /\ planStart = NoSnapshot
    /\ visible = {}
    /\ query \in OpenCells(Grid) \X OpenCells(Grid)
    /\ path = <<>>

RunAStar ==
    /\ pc = "search"
    /\ path' = AStar(query[1][1], query[1][2], query[2][1], query[2][2], Grid)
    /\ Grid' = AStarGrid(query[1][1], query[1][2], query[2][1], query[2][2], Grid)
    /\ pc' = "searched"
    /\ UNCHANGED <<MyPacs, OpponentPacs, Pellet, idx, moves, printed, turn,
                   reported, checked, planStart, query, visible>>

NextSearch == RunAStar

SpecSearch == InitSearch /\ [][NextSearch]_vars

(***************************************************************************)
(* AddPac on its own: the two collections as a run of the game can leave   *)
(* them, then one call of AddPac.                                          *)
(***************************************************************************)
\* the maze of the AddPac runs: the corridor of GameMazes
AddPacMaze == << <<" ", "#", " ">> >>

\* type tag, speed turns and cooldown as one report carries them
ReportedAttrs == {<<"NEUTRAL", 0, 0>>, <<"ROCK", 5, 10>>}

\* a unit of a collection between two turns: reported as NEUTRAL on an open
\* cell p, its target t its own cell or a pellet's, the cached distance 0
\* (NewPac, or Commit with the length of AStar's path)
KnownPac(id, mine, p, t) ==
    [NewPac(id, mine, p[1], p[2], "NEUTRAL", 0, 0) EXCEPT !.TargetX = t[1], !.TargetY = t[2]]

\* the collections of at most n units over ids, each id at most once
PacCollections(ids, mine, n, cells) ==
    {s \in UNION {[1..m -> {KnownPac(id, mine, p, t) : id \in ids, p \in cells, t \in cells}]
                     : m \in 0..n} :
        \A j, k \in 1..Len(s) : j # k => s[j].Id # s[k].Id}

InitAddPac ==
    /\ Grid = BuildGrid(AddPacMaze)
    /\ MyPacs \in PacCollections(MyIds, 1, MaxMyPacs, OpenCells(Grid))
    /\ OpponentPacs \in PacCollections(OpponentIds, 0, MaxOpponentPacs, OpenCells(Grid))
    /\ Pellet = <<>>
    /\ pc = "addpac"
    /\ idx = 0
    /\ moves = <<>>
    /\ printed = 0
    /\ turn = 0
    /\ reported = {}
    /\ checked = <<>>
    /\ planStart = NoSnapshot
    /\ visible = {}
    /\ query \in [mine : {0, 1}, id : MyIds \cup OpponentIds, pos : OpenCells(Grid),
                  attrs : ReportedAttrs]
    /\ query.id \in (IF query.mine = 1 THEN MyIds ELSE OpponentIds)
    /\ path = <<>>

RunAddPac ==
    /\ pc = "addpac"
    /\ \E r \in {AddPac(MyPacs, OpponentPacs, query.id, query.mine, query.pos[1], query.pos[2],
                         query.attrs[1], query.attrs[2], query.attrs[3])} :
          /\ MyPacs' = r.MyPacs
          /\ OpponentPacs' = r.OpponentPacs
    /\ pc' = "added"
    /\ UNCHANGED <<Grid, Pellet, idx, moves, printed, turn, reported, checked, planStart,
                   visible, query, path>>

NextAddPac == RunAddPac

SpecAddPac == InitAddPac /\ [][NextAddPac]_vars

(***************************************************************************)
(* Reference notions the properties are stated with.                       *)
(***************************************************************************)
\* the open cells at most n steps from s through open cells
RECURSIVE Within(_, _, _)
Within(grid, s, n) ==
    IF n = 0
    THEN {s}
    ELSE LET w == Within(grid, s, n - 1)
         IN  w \cup {q \in OpenCells(grid) : \E p \in w : Adjacent(p, q)}

Reachable(grid, s, g) == g \in Within(grid, s, Cardinality(Coords(grid)))

\* the hop count a breadth-first search finds
HopCount(grid, s, g) ==
    CHOOSE n \in 0..Cardinality(Coords(grid)) :
        /\ g \in Within(grid, s, n)
        /\ n = 0 \/ g \notin Within(grid, s, n - 1)

\* p is a walk from s to g over orthogonally adjacent open cells
IsWalk(grid, p, s, g) ==
    /\ Len(p) >= 1
    /\ p[1] = s
    /\ p[Len(p)] = g
    /\ \A k \in 1..Len(p) : p[k] \in OpenCells(grid)
    /\ \A k \in 1..(Len(p) - 1) : Adjacent(p[k], p[k + 1])

(***************************************************************************)
(* C1: for open cells start and goal with goal reachable from start, AStar *)
(* returns a walk from start to goal over adjacent open cells that has     *)
(* exactly (breadth-first hop count + 1) cells.                            *)
(***************************************************************************)
C1_ShortestPath ==
    (pc = "searched" /\ Reachable(Grid, query[1], query[2]))
        => /\ IsWalk(Grid, path, query[1], query[2])
           /\ Len(path) = HopCount(Grid, query[1], query[2]) + 1

(***************************************************************************)
(* Notions of the planning properties.                                     *)
(***************************************************************************)
\* a unit's stored target
TargetOf(pac) == <<pac.TargetX, pac.TargetY>>

\* the unit stands on its stored target
Idle(pac) == At(pac) = TargetOf(pac)

\* the pellets of a value that are neither consumed nor targeted
Candidates(pellets, value) ==
    {k \in 1..Len(pellets) :
        pellets[k].Value = value /\ ~pellets[k].Consumed /\ ~pellets[k].Targeted}

\* the planning loop is about to plan unit i
Planning(i) == pc = "plan" /\ idx = i /\ i <= Len(MyPacs)

\* the planning loop has planned unit i in the current turn
Planned(i) ==
    /\ i <= Len(MyPacs)
    /\ \/ pc = "plan" /\ idx > i
       \/ pc = "read" /\ turn > 0

\* PlayTurn has returned, or the process has ended in a panic
TurnEnded == pc = "panic" \/ (pc = "read" /\ turn > 0)

\* the commands in moves that address unit i
CommandsFor(i) == {m \in 1..Len(moves) : moves[m][1] = MyPacs[i].Id}

\* what CheckTargetEaten saw of unit i this turn: the unit was en route, and
\* its target pellet was missing or flagged consumed
CheckedTarget(i) == <<checked[i].TargetX, checked[i].TargetY>>
EnRouteAtCheck(i) == CheckedTarget(i) # At(MyPacs[i])
StaleAtCheck(i) == checked[i].pallet = <<>> \/ checked[i].pallet[1].Consumed

(***************************************************************************)
(* C2: when the planning loop reaches an idle unit and no pellet of value  *)
(* 10 or 1 is unconsumed and untargeted, the step raises no error, leaves  *)
(* the unit's target on its own position with distance 0 and appends a     *)
(* command that names its own position.                                    *)
(***************************************************************************)
C2_HoldsPositionWithoutPellet ==
    [][\A i \in 1..Len(MyPacs) :
          (/\ Planning(i)
           /\ Idle(MyPacs[i])
           /\ Candidates(Pellet, 10) = {}
           /\ Candidates(Pellet, 1) = {})
          => /\ pc' # "panic"
             /\ TargetOf(MyPacs'[i]) = At(MyPacs[i])
             /\ MyPacs'[i].TargetPelletDist = 0
             /\ moves' = Append(moves, Move(MyPacs[i].Id, MyPacs[i].X, MyPacs[i].Y))]_vars

(***************************************************************************)
(* C3: when planning starts with two owned units, both idle, and exactly   *)
(* one unconsumed untargeted pellet of value 10, the turn ends with        *)
(* exactly one of them targeting that pellet; the other targets a value-1  *)
(* pellet if one was available and otherwise holds its own position.       *)
(***************************************************************************)
C3_OneSuperPelletTwoUnits ==
    (/\ TurnEnded
     /\ Len(planStart.MyPacs) = 2
     /\ Idle(planStart.MyPacs[1])
     /\ Idle(planStart.MyPacs[2])
     /\ Cardinality(Candidates(planStart.Pellet, 10)) = 1)
    => /\ pc = "read"
       /\ \E i \in {1, 2} :
             LET o == 3 - i
                 super == CHOOSE k \in Candidates(planStart.Pellet, 10) : TRUE
                 regular == Candidates(planStart.Pellet, 1)
             IN  /\ TargetOf(MyPacs[i]) = At(Pellet[super])
                 /\ TargetOf(MyPacs[o]) # At(Pellet[super])
                 /\ IF regular # {}
                    THEN \E k \in regular : TargetOf(MyPacs[o]) = At(Pellet[k])
                    ELSE TargetOf(MyPacs[o]) = At(MyPacs[o])

(***************************************************************************)
(* C4: a unit that was en route when this turn's CheckTargetEaten looked   *)
(* at it, and whose target pellet was missing or flagged consumed then,    *)
(* has its target reset to its own position (distance -1) until the        *)
(* planning loop reaches it, is planned as an idle unit (it commits to a   *)
(* pellet that was a candidate when planning started), and no command for  *)
(* it in this turn names the stale coordinate.                             *)
(***************************************************************************)
C4_StaleTargetCleared ==
    \A i \in 1..Len(checked) :
        (EnRouteAtCheck(i) /\ StaleAtCheck(i))
        => /\ (pc = "reconcile" \/ (pc = "plan" /\ idx <= i))
                 => (Idle(MyPacs[i]) /\ MyPacs[i].TargetPelletDist = -1)
           /\ TargetOf(MyPacs[i]) # CheckedTarget(i)
           /\ Planned(i)
                 => \E k \in Candidates(planStart.Pellet, 10) \cup Candidates(planStart.Pellet, 1) :
                       /\ TargetOf(MyPacs[i]) = At(Pellet[k])
                       /\ Pellet[k].Targeted
           /\ \A m \in CommandsFor(i) : <<moves[m][2], moves[m][3]>> # CheckedTarget(i)

\* a unit en route to a pellet that was flagged consumed has been planned
\* again and its command is in the printed line
C4_Witness ==
    /\ pc = "read"
    /\ turn > 0
    /\ \E i \in 1..Len(checked) :
          /\ EnRouteAtCheck(i)
          /\ checked[i].pallet # <<>>
          /\ StaleAtCheck(i)
          /\ CommandsFor(i) # {}

(***************************************************************************)
(* C5: a unit that was en route when this turn's CheckTargetEaten looked   *)
(* at it, and whose target pellet was present and not flagged consumed,    *)
(* keeps its stored target, and the turn ends with a printed line that     *)
(* holds a command for it with exactly that coordinate.                    *)
(***************************************************************************)
C5_EnRouteKeepsTarget ==
    \A i \in 1..Len(checked) :
        (EnRouteAtCheck(i) /\ ~StaleAtCheck(i))
        => /\ TargetOf(MyPacs[i]) = CheckedTarget(i)
           /\ TurnEnded
                 => /\ pc = "read"
                    /\ printed = turn
                    /\ \E m \in CommandsFor(i) :
                          <<moves[m][2], moves[m][3]>> = CheckedTarget(i)

(***************************************************************************)
(* C6: when the planning loop plans an idle unit while a pellet of value   *)
(* 10 is unconsumed and untargeted, the unit commits to such a pellet      *)
(* (whatever the distances); a pellet of value 1 becomes targeted only     *)
(* when no pellet of value 10 is unconsumed and untargeted.                *)
(***************************************************************************)
C6_SuperPelletPreferred ==
    [][\A i \in 1..Len(MyPacs) :
          (Planning(i) /\ Idle(MyPacs[i]))
          => /\ Candidates(Pellet, 10) # {}
                   => /\ pc' # "panic"
                      /\ \E k \in Candidates(Pellet, 10) :
                            /\ TargetOf(MyPacs'[i]) = At(Pellet[k])
                            /\ Pellet'[k].Targeted
                            /\ moves' = Append(moves, Move(MyPacs[i].Id, Pellet[k].X, Pellet[k].Y))
             /\ (\E k \in Candidates(Pellet, 1) : Pellet'[k].Targeted)
                   => Candidates(Pellet, 10) = {}]_vars

\* the first unit planned was idle and has committed to a pellet of value 10
\* although a pellet of value 1 was a candidate strictly closer to it
C6_Witness ==
    /\ Planned(1)
    /\ Idle(planStart.MyPacs[1])
    /\ \E k \in Candidates(planStart.Pellet, 10), j \in Candidates(planStart.Pellet, 1) :
          /\ TargetOf(MyPacs[1]) = At(Pellet[k])
          /\ Pellet[k].Targeted
          /\ Reachable(Grid, At(MyPacs[1]), At(Pellet[k]))
          /\ Reachable(Grid, At(MyPacs[1]), At(Pellet[j]))
          /\ HopCount(Grid, At(MyPacs[1]), At(Pellet[j]))
                < HopCount(Grid, At(MyPacs[1]), At(Pellet[k]))

(***************************************************************************)
(* C7: at the call of the closest-pellet searches for an idle unit, with   *)
(* every candidate of the value reachable, the search returns a candidate  *)
(* of minimal shortest-path length, and the earliest inserted one among    *)
(* those of minimal length.                                                *)
(***************************************************************************)
NearestFirst(pellets, pac, value, k) ==
    LET c == Candidates(pellets, value)
        D(j) == HopCount(Grid, At(pac), At(pellets[j]))
    IN  (c # {} /\ \A j \in c : Reachable(Grid, At(pac), At(pellets[j])))
        => /\ k \in c
           /\ \A j \in c : D(k) <= D(j) /\ (D(j) = D(k) => k <= j)

C7_ClosestIsNearest ==
    \A i \in 1..Len(MyPacs) :
        (Planning(i) /\ Idle(MyPacs[i]))
        => \E r \in {ClearReached(Pellet, MyPacs[i])} :
              /\ NearestFirst(r.pellets, r.pac, 10,
                              GetClosestSuperPallet(r.pellets, r.pac, Grid))
              /\ GetClosestSuperPallet(r.pellets, r.pac, Grid) = 0
                    => NearestFirst(r.pellets, r.pac, 1,
                                    GetClosestRegularPallet(r.pellets, r.pac, Grid))

(***************************************************************************)
(* C8: a planning step never commits a unit to a pellet to which the path  *)
(* search from the unit's position finds no path.                          *)
(***************************************************************************)
C8_NoPathNeverSelected ==
    [][\A i \in 1..Len(MyPacs) :
          Planning(i)
          => /\ pc' # "panic" \/ Candidates(Pellet, 10) \cup Candidates(Pellet, 1) = {}
             /\ \A k \in 1..Len(Pellet) :
                   (~Pellet[k].Targeted /\ Pellet'[k].Targeted)
                   => AStar(MyPacs[i].X, MyPacs[i].Y, Pellet[k].X, Pellet[k].Y, Grid) # <<>>]_vars

(***************************************************************************)
(* C9: once PlayTurn has run its two removal loops, and until the next     *)
(* turn's input is read, every known pellet on the position of a known     *)
(* unit, owned or opposing, is flagged consumed.                           *)
(***************************************************************************)
C9_PelletsUnderUnitsConsumed ==
    (pc \in {"plan", "panic", "read"})
    => \A k \in 1..Len(Pellet) :
          \A pacs \in {MyPacs, OpponentPacs} :
             \A u \in 1..Len(pacs) :
                At(pacs[u]) = At(Pellet[k]) => Pellet[k].Consumed

\* in the first turn every known pellet was reported, hence not consumed
\* when PlayTurn was called; one under an opposing unit, which no owned unit
\* stands on or targets, is flagged consumed when the turn is over
C9_Witness ==
    /\ pc = "read"
    /\ turn = 1
    /\ \E k \in 1..Len(Pellet), u \in 1..Len(OpponentPacs) :
          /\ At(OpponentPacs[u]) = At(Pellet[k])
          /\ Pellet[k].Consumed
          /\ \A i \in 1..Len(MyPacs) :
                At(MyPacs[i]) # At(Pellet[k]) /\ TargetOf(MyPacs[i]) # At(Pellet[k])

(***************************************************************************)
(* C10: every turn ends with one printed line that holds exactly one       *)
(* command per owned unit, in the units' order, each naming the unit's     *)
(* stored target at the end of the turn.                                   *)
(***************************************************************************)
C10_OneCommandPerUnit ==
    TurnEnded
    => /\ printed = turn
       /\ Len(moves) = Len(MyPacs)
       /\ \A i \in 1..Len(MyPacs) :
             moves[i] = Move(MyPacs[i].Id, MyPacs[i].TargetX, MyPacs[i].TargetY)


(***************************************************************************)
(* Notions of the registry properties.                                     *)
(***************************************************************************)
\* PlayTurn has returned and main is about to read the next turn
PlayTurnReturned == pc = "read" /\ turn > 0

\* the coordinates reported in this turn's visible pellet list
VisibleCoords == {<<v[1], v[2]>> : v \in visible}

\* owned unit i is on its way: its position differs from its stored target
EnRoute(i) == At(MyPacs[i]) # TargetOf(MyPacs[i])

(***************************************************************************)
(* C11: when a turn has ended, a pellet is flagged targeted only if some   *)
(* owned unit's stored target is that pellet's coordinate.                 *)
(***************************************************************************)
C11_TargetedOnlyWhileTargeted ==
    PlayTurnReturned
    => \A k \in 1..Len(Pellet) :
          Pellet[k].Targeted
          => \E i \in 1..Len(MyPacs) : TargetOf(MyPacs[i]) = At(Pellet[k])

\* some known unit, owned or opposing, stands on coordinate p
UnitOn(p) ==
    \/ \E i \in 1..Len(MyPacs) : At(MyPacs[i]) = p
    \/ \E u \in 1..Len(OpponentPacs) : At(OpponentPacs[u]) = p

\* PlayTurn is running or has ended: this turn's input is applied
InputApplied == pc \in {"reconcile", "plan", "panic"} \/ PlayTurnReturned

\* unit i was en route, when CheckTargetEaten looked at it, to a known pellet
\* that this turn's list does not report
CheckedUnreported(i) ==
    /\ EnRouteAtCheck(i)
    /\ checked[i].pallet # <<>>
    /\ CheckedTarget(i) \notin VisibleCoords

(***************************************************************************)
(* C12 as claimed: during a turn's planning a known pellet that the        *)
(* turn's list does not report, and that no unit stands on, is not flagged *)
(* consumed, and a unit en route to it keeps it as its target.             *)
(***************************************************************************)
C12_UnreportedNotConsumed ==
    (pc = "plan")
    => /\ \A k \in 1..Len(Pellet) :
             (At(Pellet[k]) \notin VisibleCoords /\ ~UnitOn(At(Pellet[k])))
             => ~Pellet[k].Consumed
       /\ \A i \in 1..Len(checked) :
             (CheckedUnreported(i) /\ ~UnitOn(CheckedTarget(i)) /\ idx <= i)
             => TargetOf(MyPacs[i]) = CheckedTarget(i)

(***************************************************************************)
(* C12 as amended: during a turn's planning a known pellet that the turn's *)
(* list does not report is flagged consumed, no idle unit is given it as   *)
(* its new target, and a unit that was en route to it has its target reset *)
(* to its own position before the planning loop starts.                    *)
(***************************************************************************)
C12_UnreportedConsumed ==
    InputApplied
    => /\ \A k \in 1..Len(Pellet) :
             At(Pellet[k]) \notin VisibleCoords => Pellet[k].Consumed
       /\ (pc # "reconcile")
          => /\ \A i \in 1..Len(moves) :
                   Idle(planStart.MyPacs[i])
                   => <<moves[i][2], moves[i][3]>> \in VisibleCoords
             /\ \A i \in 1..Len(checked) :
                   CheckedUnreported(i) => Idle(planStart.MyPacs[i])

\* a unit was en route to a pellet that this turn does not report and no
\* unit stands on; the turn has ended with the unit sent to a reported one
C12_Witness ==
    /\ PlayTurnReturned
    /\ \E i \in 1..Len(checked) :
          /\ CheckedUnreported(i)
          /\ ~UnitOn(CheckedTarget(i))
          /\ TargetOf(MyPacs[i]) \in VisibleCoords
          /\ moves[i] = Move(MyPacs[i].Id, MyPacs[i].TargetX, MyPacs[i].TargetY)

\* the turn's input is applied and PlayTurn has not yet run its first loop
PlanningStarts == pc = "reconcile" /\ idx = 1 /\ checked = <<>>

\* the pellets at coordinate p
PelletsAt(pellets, p) == {k \in 1..Len(pellets) : At(pellets[k]) = p}

(***************************************************************************)
(* C13: when a turn's input is applied and PlayTurn starts, a known pellet *)
(* is flagged not consumed exactly if its coordinate is in the turn's      *)
(* visible pellet list, and has the reported value if it is; reading a     *)
(* list entry with an unknown coordinate adds exactly one pellet and       *)
(* leaves the others as they were, reading one with a known coordinate     *)
(* adds none and changes only that pellet.                                 *)
(***************************************************************************)
C13_ConsumedIffNotReported ==
    /\ [](PlanningStarts
          => /\ \A k \in 1..Len(Pellet) :
                   ~Pellet[k].Consumed <=> At(Pellet[k]) \in VisibleCoords
             /\ \A v \in visible :
                   \E k \in 1..Len(Pellet) :
                      At(Pellet[k]) = <<v[1], v[2]>> /\ Pellet[k].Value = v[3])
    /\ [][\A v \in visible' \ visible :
             IF PelletsAt(Pellet, <<v[1], v[2]>>) = {}
             THEN /\ Len(Pellet') = Len(Pellet) + 1
                  /\ SubSeq(Pellet', 1, Len(Pellet)) = Pellet
                  /\ At(Pellet'[Len(Pellet')]) = <<v[1], v[2]>>
                  /\ Pellet'[Len(Pellet')].Value = v[3]
             ELSE /\ Len(Pellet') = Len(Pellet)
                  /\ \A k \in 1..Len(Pellet) :
                        IF At(Pellet[k]) = <<v[1], v[2]>>
                        THEN Pellet'[k].Value = v[3] /\ ~Pellet'[k].Consumed
                        ELSE Pellet'[k] = Pellet[k]]_vars

\* second turn: a pellet known (and targeted) since the first turn is
\* reported again, another known pellet is not
C13_Witness ==
    /\ PlanningStarts
    /\ turn = 2
    /\ \E k, j \in 1..Len(Pellet) :
          /\ Pellet[k].Targeted
          /\ At(Pellet[k]) \in VisibleCoords
          /\ ~Pellet[k].Consumed
          /\ At(Pellet[j]) \notin VisibleCoords
          /\ Pellet[j].Consumed

\* the unit a call AddPac(id, ..., x, y, typeId, speedTurnsLeft, abilityCooldown)
\* is to leave in place of the known unit pac
Overwritten(pac, q) ==
    [pac EXCEPT !.X = q.pos[1], !.Y = q.pos[2], !.TypeId = q.attrs[1],
                !.SpeedTurnsLeft = q.attrs[2], !.AbilityCooldown = q.attrs[3]]

(***************************************************************************)
(* C14: AddPac for an id present on the reported side changes only that    *)
(* unit's position and attributes: its target and cached distance, the     *)
(* other units, both sizes and the other side stay as they were.  AddPac   *)
(* for an id absent from the reported side appends one unit there, with    *)
(* the reported position as its target, whatever ids the other side holds. *)
(***************************************************************************)
C14_AddPacFrame ==
    [][(pc = "addpac")
       => /\ PacsOf(1 - query.mine)' = PacsOf(1 - query.mine)
          /\ IF \E k \in 1..Len(PacsOf(query.mine)) : PacsOf(query.mine)[k].Id = query.id
             THEN /\ Len(PacsOf(query.mine)') = Len(PacsOf(query.mine))
                  /\ \A k \in 1..Len(PacsOf(query.mine)) :
                        PacsOf(query.mine)'[k] =
                            IF PacsOf(query.mine)[k].Id = query.id
                            THEN Overwritten(PacsOf(query.mine)[k], query)
                            ELSE PacsOf(query.mine)[k]
             ELSE /\ Len(PacsOf(query.mine)') = Len(PacsOf(query.mine)) + 1
                  /\ SubSeq(PacsOf(query.mine)', 1, Len(PacsOf(query.mine))) = PacsOf(query.mine)
                  /\ LET new == PacsOf(query.mine)'[Len(PacsOf(query.mine)')]
                     IN  /\ new.Id = query.id
                         /\ new.Mine = (query.mine = 1)
                         /\ At(new) = query.pos
                         /\ TargetOf(new) = query.pos
                         /\ <<new.TypeId, new.SpeedTurnsLeft, new.AbilityCooldown>> = query.attrs]_vars

\* an owned unit known before the call (its target is not the reported
\* position) has been moved and its attributes overwritten, while the other
\* side holds a unit of the same id
C14_Witness ==
    /\ pc = "added"
    /\ query.mine = 1
    /\ Len(MyPacs) = 2
    /\ \E k \in 1..Len(MyPacs) :
          /\ MyPacs[k].Id = query.id
          /\ At(MyPacs[k]) = query.pos
          /\ TargetOf(MyPacs[k]) # query.pos
          /\ MyPacs[k].TypeId = "ROCK"
    /\ \E u \in 1..Len(OpponentPacs) : OpponentPacs[u].Id = query.id

(***************************************************************************)
(* C15: for open cells start and goal with goal not reachable from start   *)
(* through open cells, AStar returns and its result is the empty path.     *)
(***************************************************************************)
C15_NoPathWhenUnreachable ==
    (pc = "searched" /\ ~Reachable(Grid, query[1], query[2])) => path = <<>>

\* a search has returned for two open cells that walls separate
C15_Witness ==
    /\ pc = "searched"
    /\ ~CellAt(Grid, query[1]).isWall
    /\ ~CellAt(Grid, query[2]).isWall
    /\ ~Reachable(Grid, query[1], query[2])
    /\ path = <<>>

C17_PelletsUniqueAndKept ==
    /\ [](\A j, k \in 1..Len(Pellet) : At(Pellet[j]) = At(Pellet[k]) => j = k)
    /\ [][/\ Len(Pellet') >= Len(Pellet)
          /\ \A k \in 1..Len(Pellet) : At(Pellet'[k]) = At(Pellet[k])]_vars

\* second turn: the pellet known (and targeted) since the first turn has been
\* reported again, and so has a second one
C17_Witness ==
    /\ pc = "pellets"
    /\ turn = 2
    /\ Len(Pellet) = 2
    /\ Pellet[1].Targeted
    /\ \A k \in 1..Len(Pellet) : At(Pellet[k]) \in VisibleCoords /\ ~Pellet[k].Consumed

(***************************************************************************)
(* C18: when a turn has ended, no two distinct owned units that are en     *)
(* route have the same stored target.                                      *)
(***************************************************************************)
C18_NoSharedTarget ==
    TurnEnded
    => \A i, j \in 1..Len(MyPacs) :
          (i # j /\ EnRoute(i) /\ EnRoute(j))
          => TargetOf(MyPacs[i]) # TargetOf(MyPacs[j])

\* the first unit is en route since an earlier turn to a pellet that is still
\* there; the second was planned as an idle unit in this turn and is sent to
\* another pellet
C18_Witness ==
    /\ PlayTurnReturned
    /\ Len(MyPacs) = 2
    /\ EnRoute(1)
    /\ EnRoute(2)
    /\ ~Idle(planStart.MyPacs[1])
    /\ Idle(planStart.MyPacs[2])
    /\ \E k \in 1..Len(Pellet) :
          /\ At(Pellet[k]) = TargetOf(MyPacs[1])
          /\ ~Pellet[k].Consumed
          /\ Pellet[k].Value \in PelletValues

(***************************************************************************)
(* C19: when PlayTurn has returned, no owned unit that is en route has at  *)
(* its stored target a pellet that is flagged consumed.                    *)
(***************************************************************************)
C19_NoConsumedTarget ==
    PlayTurnReturned
    => \A i \in 1..Len(MyPacs) :
          EnRoute(i)
          => \A k \in 1..Len(Pellet) :
                At(Pellet[k]) = TargetOf(MyPacs[i]) => ~Pellet[k].Consumed

=============================================================================
